---- MODULE Spec2Model ----
(***************************************************************************)
(* Race-condition test scripts of auth9 (scripts/qa/*.py and               *)
(* race_test_tenant.py): a burst of concurrent invocations against a       *)
(* target, the classification of every outcome, and the judgment drawn     *)
(* from the aggregate.  One specification per script; the scripts share    *)
(* the variables below.                                                    *)
(***************************************************************************)
EXTENDS Integers, Sequences, FiniteSets, TLC

VARIABLES
    script,     \* the script that is running (fixed by Init)
    pc,         \* control point of the main thread / main coroutine
    upc,        \* per invocation unit: its control point
    uout,       \* per invocation unit: what the transport gave back
    utmp,       \* per invocation unit: the counter value it read for "+= 1"
    lock,       \* the set of threads inside "with self.lock" (empty: free)
    counters,   \* the shared counters (self.success_count, ...)
    results,    \* the accumulated outcomes (self.responses / results)
    judgment,   \* what the script concludes: Pass / Fail / Inconclusive
    reason,     \* the message printed with the judgment
    exitcode,   \* the process exit status (read once the script has ended)
    token,      \* what gen-admin-token.sh printed ("" when it failed)
    rows,       \* target: records held for the contended key
    atMostOnce, \* target: TRUE when it enforces uniqueness of the key
    rowsAtDispatch, \* target: the records it held when the burst was dispatched
    truth,      \* the ground-truth count the script read, << >> if none
    peak,       \* the largest number of burst invocations in flight so far
    ciphertexts, \* test_nonce_reuse: the listed ciphertexts
    scanned,    \* test_nonce_reuse: the entries the loop has been through
    nonces,     \* test_nonce_reuse: the set of nonces seen
    duplicates  \* test_nonce_reuse: the (position, nonce) pairs found again

unitVars == <<upc, uout, utmp, lock, counters, results>>
reportVars == <<judgment, reason, exitcode, truth>>
targetVars == <<rows, atMostOnce, rowsAtDispatch>>
nonceVars == <<ciphertexts, scanned, nonces, duplicates>>
vars == <<script, pc, upc, uout, utmp, lock, counters, results,
          judgment, reason, exitcode, token, rows, atMostOnce,
          rowsAtDispatch, truth, peak,
          ciphertexts, scanned, nonces, duplicates>>

None == "none"

\* Bounds of the model (the scripts use 10..100 requests, 20..50 workers).
NumRequests == 3
Concurrency == 2
\* Records for the contended key that a previous run may have left behind.
MaxStale == 1

\* The request ids of a burst: range(num_requests).
UnitIds == 0 .. (NumRequests - 1)
\* The single run_exchange(0) that grpc_race_test makes before the burst.
Probe == -1
AllUnits == UnitIds \cup {Probe}

RequestId(u) == IF u = Probe THEN 0 ELSE u

CounterNames == {"success", "error", "timeout", "exception",
                 "conflict", "db_error", "other"}

ZeroCounters == [c \in CounterNames |-> 0]

\* What an invocation got back.  kind: "response" (an HTTP answer with its
\* status; marker: the body holds "1062"), "timeout" / "connerr" (requests
\* raised), or one of the grpcurl outcomes below.
Out(k, s, m) == [kind |-> k, status |-> s, marker |-> m]
NoOut == Out(None, 0, FALSE)
Response(s, m) == Out("response", s, m)
Raised(k) == Out(k, 0, FALSE)

\* The scripts whose invocations count their own outcome under self.lock; in
\* the others the main thread collects what the invocations return.
LockScripts == {"grpc_race_test", "precise_race_test"}

\* Where an invocation stands once its call has come back: still inside its
\* handler ("ret"), or returned to the executor ("returned").
AfterCall == IF script \in LockScripts THEN "ret" ELSE "returned"

\* Units that hold one of the pool's worker threads.
Running ==
    Cardinality({u \in UnitIds : upc[u] \in {"call", "hung", "ret", "write", "append"}})

\* The invocations of the burst in flight when the units are at f, and the
\* running maximum of that number once they are.
InFlightOf(f) ==
    Cardinality({u \in UnitIds : f[u] \in {"call", "hung", "ret", "write", "append"}})

PeakAfter(f) == IF InFlightOf(f) > peak THEN InFlightOf(f) ELSE peak

CommonInit ==
    /\ pc = "start"
    /\ upc = [u \in AllUnits |-> "new"]
    /\ uout = [u \in AllUnits |-> NoOut]
    /\ utmp = [u \in AllUnits |-> 0]
    /\ lock = {}
    /\ counters = ZeroCounters
    /\ results = << >>
    /\ judgment = None
    /\ reason = None
    /\ exitcode = 0
    /\ truth = << >>
    /\ rowsAtDispatch = 0
    /\ peak = 0
    /\ ciphertexts = << >>
    /\ scanned = 0
    /\ nonces = {}
    /\ duplicates = << >>

\* An exception nobody catches ends the script with a traceback.
Crash ==
    /\ pc' = "crashed"
    /\ exitcode' = 1
    /\ UNCHANGED <<judgment, reason, truth>>

Ended == pc \in {"exit", "crashed"}

(***************************************************************************)
(* concurrent.futures.ThreadPoolExecutor, as the threaded scripts use it   *)
(***************************************************************************)

\* Size of the ThreadPoolExecutor the script creates.
PoolSize ==
    IF script = "grpc_race_test" THEN Concurrency ELSE NumRequests

\* executor.submit(f, i) for i in range(num_requests), in that order.
PoolSubmit ==
    /\ pc = "submit"
    /\ \E u \in UnitIds :
          /\ upc[u] = "new"
          /\ \A v \in UnitIds : v < u => upc[v] # "new"
          /\ upc' = [upc EXCEPT ![u] = "queued"]
          /\ pc' = IF u = NumRequests - 1 THEN "wait" ELSE "submit"
    /\ UNCHANGED <<script, nonceVars, peak, uout, utmp, lock, counters, results, token>>
    /\ UNCHANGED reportVars
    /\ UNCHANGED targetVars

\* A pool that starts a thread for every queued work item.
CanStartUnbounded(u) ==
    /\ upc[u] = "queued"
    /\ \A v \in UnitIds : v < u => upc[v] # "queued"

\* A worker thread takes the oldest queued work item, if a worker is free.
CanStart(u) ==
    /\ upc[u] = "queued"
    /\ \A v \in UnitIds : v < u => upc[v] # "queued"
    /\ Running < PoolSize

PoolStart(u) ==
    /\ CanStart(u)
    /\ upc' = [upc EXCEPT ![u] = "call"]
    /\ peak' = PeakAfter(upc')
    /\ UNCHANGED <<script, nonceVars, pc, uout, utmp, lock, counters, results, token>>
    /\ UNCHANGED reportVars
    /\ UNCHANGED targetVars

\* A main thread that goes on as soon as one future is done.
PoolJoinFirstDone ==
    /\ pc = "wait"
    /\ \E u \in UnitIds : upc[u] = "done"
    /\ pc' = "report"
    /\ UNCHANGED <<script, nonceVars, peak, token>>
    /\ UNCHANGED unitVars
    /\ UNCHANGED reportVars
    /\ UNCHANGED targetVars

\* The as_completed loop and the executor's shutdown end when every future
\* is done.
PoolJoin ==
    /\ pc = "wait"
    /\ \A u \in UnitIds : upc[u] = "done"
    /\ pc' = "report"
    /\ UNCHANGED <<script, nonceVars, peak, token>>
    /\ UNCHANGED unitVars
    /\ UNCHANGED reportVars
    /\ UNCHANGED targetVars

(***************************************************************************)
(* The counters guarded by self.lock (grpc_race_test, precise_race_test)   *)
(***************************************************************************)

\* exchange_token's result type for what grpcurl gave back: exit 0 with a
\* JSON object holding accessToken ("token"), exit 0 with JSON lacking it
\* ("notoken"), exit 0 with output that is not JSON ("garbled"), a non-zero
\* exit ("nonzero"), subprocess.TimeoutExpired ("timeout"), any other
\* exception ("oserror").
exchange_token(out) ==
    CASE out.kind = "token"   -> "success"
      [] out.kind = "notoken" -> "error"
      [] out.kind = "garbled" -> "success"
      [] out.kind = "nonzero" -> "error"
      [] out.kind = "timeout" -> "timeout"
      [] OTHER                -> "exception"

GrpcRawOutcomes == {"token", "notoken", "garbled", "nonzero", "oserror"}

\* The counter run_exchange increments (and the type it appends) for a
\* result type: success / error / timeout, anything else is an exception.
GrpcBranch(rtype) ==
    CASE rtype = "success" -> "success"
      [] rtype = "error"   -> "error"
      [] rtype = "timeout" -> "timeout"
      [] OTHER             -> "exception"

\* The chain with its third test reading only the status.
PreciseBranchNoMarker(out) ==
    IF out.kind # "response" THEN "other"
    ELSE IF out.status = 201 THEN "success"
    ELSE IF out.status = 409 THEN "conflict"
    ELSE IF out.status = 500 THEN "db_error"
    ELSE "other"

\* The counter RaceTest.create_tenant increments: the if/elif chain on the
\* response, "other" for an exception.
PreciseBranch(out) ==
    IF out.kind # "response" THEN "other"
    ELSE IF out.status = 201 THEN "success"
    ELSE IF out.status = 409 THEN "conflict"
    ELSE IF out.status = 500 /\ out.marker THEN "db_error"
    ELSE "other"

Branch(u) ==
    IF script = "grpc_race_test"
    THEN GrpcBranch(exchange_token(uout[u]))
    ELSE PreciseBranch(uout[u])

\* A lock that lets every thread in.
LockFreeBroken(u) == TRUE

\* "with self.lock:" is entered only when no thread holds the lock.
LockFree(u) == lock = {}

\* Enter "with self.lock" and read the counter of the branch taken.
LockAcquire(u) ==
    /\ upc[u] = "ret"
    /\ LockFree(u)
    /\ lock' = lock \cup {u}
    /\ utmp' = [utmp EXCEPT ![u] = counters[Branch(u)]]
    /\ upc' = [upc EXCEPT ![u] = "write"]
    /\ UNCHANGED <<script, nonceVars, peak, pc, uout, counters, results, token>>
    /\ UNCHANGED reportVars
    /\ UNCHANGED targetVars

\* A handler whose last branch (else / except) counts nothing.
CounterWriteSkipsOther(u) ==
    /\ upc[u] = "write"
    /\ counters' = IF Branch(u) \in {"other", "exception"} THEN counters
                   ELSE [counters EXCEPT ![Branch(u)] = utmp[u] + 1]
    /\ IF script = "grpc_race_test"
       THEN /\ upc' = [upc EXCEPT ![u] = "append"]
            /\ lock' = lock
       ELSE /\ upc' = [upc EXCEPT ![u] = "done"]
            /\ lock' = lock \ {u}
    /\ UNCHANGED <<script, nonceVars, peak, pc, uout, utmp, results, token>>
    /\ UNCHANGED reportVars
    /\ UNCHANGED targetVars

\* Store counter + 1.  RaceTest.create_tenant then leaves the lock and
\* returns; run_exchange still has its append to do.
CounterWrite(u) ==
    /\ upc[u] = "write"
    /\ counters' = [counters EXCEPT ![Branch(u)] = utmp[u] + 1]
    /\ IF script = "grpc_race_test"
       THEN /\ upc' = [upc EXCEPT ![u] = "append"]
            /\ lock' = lock
       ELSE /\ upc' = [upc EXCEPT ![u] = "done"]
            /\ lock' = lock \ {u}
    /\ UNCHANGED <<script, nonceVars, peak, pc, uout, utmp, results, token>>
    /\ UNCHANGED reportVars
    /\ UNCHANGED targetVars

(***************************************************************************)
(* grpc_race_test.py                                                       *)
(***************************************************************************)

GrpcInit ==
    /\ script = "grpc_race_test"
    /\ CommonInit
    /\ token = "tok"
    /\ rows = 0
    /\ atMostOnce = TRUE

\* __main__: test.run_exchange(0) on the main thread.
GrpcProbeCall ==
    /\ script = "grpc_race_test"
    /\ pc = "start"
    /\ pc' = "probe"
    /\ upc' = [upc EXCEPT ![Probe] = "call"]
    /\ UNCHANGED <<script, nonceVars, peak, uout, utmp, lock, counters, results, token>>
    /\ UNCHANGED reportVars
    /\ UNCHANGED targetVars

\* subprocess.run returns (or fails to launch).
GrpcRespond(u, k) ==
    /\ upc[u] = "call"
    /\ upc' = [upc EXCEPT ![u] = "ret"]
    /\ uout' = [uout EXCEPT ![u] = Raised(k)]
    /\ UNCHANGED <<script, nonceVars, peak, pc, utmp, lock, counters, results, token>>
    /\ UNCHANGED reportVars
    /\ UNCHANGED targetVars

\* The child process never answers.
GrpcHang(u) ==
    /\ upc[u] = "call"
    /\ upc' = [upc EXCEPT ![u] = "hung"]
    /\ UNCHANGED <<script, nonceVars, peak, pc, uout, utmp, lock, counters, results, token>>
    /\ UNCHANGED reportVars
    /\ UNCHANGED targetVars

\* subprocess.run(..., timeout=10) raises TimeoutExpired.
GrpcDeadline(u) ==
    /\ upc[u] \in {"call", "hung"}
    /\ upc' = [upc EXCEPT ![u] = "ret"]
    /\ uout' = [uout EXCEPT ![u] = Raised("timeout")]
    /\ UNCHANGED <<script, nonceVars, peak, pc, utmp, lock, counters, results, token>>
    /\ UNCHANGED reportVars
    /\ UNCHANGED targetVars

\* The entry run_exchange appends for unit u: (request_id, type).
GrpcEntry(u) ==
    [id |-> RequestId(u), typ |-> GrpcBranch(exchange_token(uout[u]))]

\* run_exchange: self.responses.append(...), leave the lock, return.
GrpcAppend(u) ==
    /\ upc[u] = "append"
    /\ results' = Append(results, GrpcEntry(u))
    /\ lock' = lock \ {u}
    /\ upc' = [upc EXCEPT ![u] = "done"]
    /\ UNCHANGED <<script, nonceVars, peak, pc, uout, utmp, counters, token>>
    /\ UNCHANGED reportVars
    /\ UNCHANGED targetVars

\* __main__: the single request decides whether the burst runs at all.
GrpcProbeDone ==
    /\ script = "grpc_race_test"
    /\ pc = "probe"
    /\ upc[Probe] = "done"
    /\ IF exchange_token(uout[Probe]) = "success"
       THEN /\ pc' = "submit"
            /\ UNCHANGED reportVars
       ELSE /\ pc' = "exit"
            /\ judgment' = "Fail"
            /\ reason' = "Single request failed, skipping concurrent test"
            /\ exitcode' = 1
            /\ truth' = truth
    /\ UNCHANGED <<script, nonceVars, peak, token>>
    /\ UNCHANGED unitVars
    /\ UNCHANGED targetVars

\* run_test's return value and __main__'s exit: success_count > 0.
GrpcReport ==
    /\ script = "grpc_race_test"
    /\ pc = "report"
    /\ pc' = "exit"
    /\ IF counters["success"] > 0
       THEN /\ judgment' = "Pass"
            /\ reason' = "TEST COMPLETED"
            /\ exitcode' = 0
       ELSE /\ judgment' = "Fail"
            /\ reason' = "TEST FAILED"
            /\ exitcode' = 1
    /\ truth' = truth
    /\ UNCHANGED <<script, nonceVars, peak, token>>
    /\ UNCHANGED unitVars
    /\ UNCHANGED targetVars

GrpcUnit ==
    \E u \in AllUnits :
        \/ \E k \in GrpcRawOutcomes : GrpcRespond(u, k)
        \/ GrpcHang(u)
        \/ GrpcDeadline(u)
        \/ LockAcquire(u)
        \/ CounterWrite(u)
        \/ GrpcAppend(u)

Next ==
    \/ GrpcProbeCall
    \/ GrpcProbeDone
    \/ PoolSubmit
    \/ \E u \in UnitIds : PoolStart(u)
    \/ PoolJoin
    \/ GrpcReport
    \/ GrpcUnit

Spec == GrpcInit /\ [][Next]_vars

DoneUnits == {u \in AllUnits : upc[u] = "done"}
CountEntries(e) == Cardinality({k \in 1 .. Len(results) : results[k] = e})

\* C2: under every interleaving of the workers appending to the shared
\* accumulator of grpc_race_test (self.responses and the four counters), no
\* append is lost and none is duplicated: the accumulator holds exactly one
\* entry for every unit that has returned, each counter equals the number of
\* units that took its branch, and once all workers have finished there is
\* one entry per dispatched unit (the single request and the burst).
C2_NoLostNoDuplicate ==
    /\ Len(results) = Cardinality(DoneUnits)
    /\ \A u \in DoneUnits :
          CountEntries(GrpcEntry(u)) =
              Cardinality({v \in DoneUnits : GrpcEntry(v) = GrpcEntry(u)})
    /\ \A c \in CounterNames :
          counters[c] = Cardinality({u \in AllUnits :
                            upc[u] \in {"append", "done"} /\ Branch(u) = c})
    /\ pc = "report" => DoneUnits = AllUnits

\* C2 witness: the burst has finished and the workers appended in an order
\* that is not the dispatch order.
C2_Witness ==
    /\ pc = "report"
    /\ Len(results) = Cardinality(AllUnits)
    /\ \E k \in 1 .. (Len(results) - 1) : results[k].id > results[k + 1].id

(***************************************************************************)
(* The target, as the HTTP scripts see it                                  *)
(***************************************************************************)

\* The status the script counts as a success (201 Created for a tenant,
\* 200 for a password reset or an accepted invitation).
SuccessStatus ==
    IF script \in {"precise_race_test", "tenant_race_test", "race_test_tenant"}
    THEN 201 ELSE 200

\* The answers with which the target turns a request down because the key
\* is taken: 409, or 500 with the database's duplicate-key error 1062, for
\* a tenant slug; 400 or 404 for a token that was already redeemed.
RejectAnswers ==
    IF script \in {"precise_race_test", "tenant_race_test", "race_test_tenant"}
    THEN {Response(409, FALSE), Response(500, TRUE)}
    ELSE {Response(400, FALSE), Response(404, FALSE)}

\* The answers the target can give to one request of the burst in its
\* current state: 401 without a bearer token; success while the key is free
\* (or whenever the target does not enforce uniqueness); a rejection once
\* the key is taken; a plain 500 at any time.
TargetAnswers ==
    IF token = "" THEN {Response(401, FALSE)}
    ELSE (IF rows = 0 \/ ~atMostOnce
          THEN {Response(SuccessStatus, FALSE)} ELSE {})
         \cup (IF rows > 0 THEN RejectAnswers ELSE {})
         \cup {Response(500, FALSE)}

\* The target's state after giving the answer: a success stores a record.
RowsAfter(ans) == IF ans.status = SuccessStatus THEN rows + 1 ELSE rows

\* requests.post returns the target's answer.
HttpAnswer(u, ans) ==
    /\ upc[u] = "call"
    /\ ans \in TargetAnswers
    /\ rows' = RowsAfter(ans)
    /\ uout' = [uout EXCEPT ![u] = ans]
    /\ upc' = [upc EXCEPT ![u] = AfterCall]
    /\ UNCHANGED <<script, nonceVars, peak, pc, utmp, lock, counters, results, token, atMostOnce,
                   rowsAtDispatch>>
    /\ UNCHANGED reportVars

\* The target handles the request but its answer does not arrive within
\* timeout=10: requests.post raises.
HttpLost(u, ans) ==
    /\ upc[u] = "call"
    /\ ans \in TargetAnswers
    /\ rows' = RowsAfter(ans)
    /\ uout' = [uout EXCEPT ![u] = Raised("timeout")]
    /\ upc' = [upc EXCEPT ![u] = AfterCall]
    /\ UNCHANGED <<script, nonceVars, peak, pc, utmp, lock, counters, results, token, atMostOnce,
                   rowsAtDispatch>>
    /\ UNCHANGED reportVars

\* The request never reaches the target (connection refused or reset).
HttpFail(u) ==
    /\ upc[u] = "call"
    /\ uout' = [uout EXCEPT ![u] = Raised("connerr")]
    /\ upc' = [upc EXCEPT ![u] = AfterCall]
    /\ UNCHANGED <<script, nonceVars, peak, pc, utmp, lock, counters, results, token>>
    /\ UNCHANGED reportVars
    /\ UNCHANGED targetVars

\* A search request of the script (GET /api/v1/tenants?search=...): it is
\* answered 200 ("ok"), answered otherwise ("bad") or raises ("raise");
\* without a token it is never answered 200.
SearchResults == IF token = "" THEN {"bad", "raise"} ELSE {"ok", "bad", "raise"}

(***************************************************************************)
(* precise_race_test.py                                                    *)
(***************************************************************************)

PreciseInit ==
    /\ script = "precise_race_test"
    /\ CommonInit
    /\ token \in {"tok", ""}
    /\ rows \in 0 .. MaxStale
    /\ atMostOnce \in BOOLEAN

\* run_test: self.cleanup() before the burst.  When the search is answered
\* 200 a DELETE is sent for every tenant found; what each DELETE achieves is
\* not looked at, so any number of the records may remain.
PreciseCleanup ==
    /\ script = "precise_race_test"
    /\ pc = "start"
    /\ \E get \in SearchResults : \E left \in 0 .. rows :
          IF get = "raise"
          THEN Crash /\ UNCHANGED <<rows, rowsAtDispatch>>
          ELSE /\ pc' = "submit"
               /\ rows' = (IF get = "ok" THEN left ELSE rows)
               /\ rowsAtDispatch' = rows'
               /\ UNCHANGED reportVars
    /\ UNCHANGED <<script, nonceVars, peak, token, atMostOnce>>
    /\ UNCHANGED unitVars

\* run_test after the burst: the printed results, self.verify(), the
\* analysis, self.cleanup(), and __main__'s exit on success_count == 1.
PreciseReport ==
    /\ script = "precise_race_test"
    /\ pc = "report"
    /\ \E v \in SearchResults : \E c \in SearchResults : \E left \in 0 .. rows :
          IF v = "raise" \/ c = "raise"
          THEN Crash /\ rows' = rows
          ELSE /\ pc' = "exit"
               /\ truth' = IF v = "ok" THEN <<rows>> ELSE << >>
               /\ rows' = IF c = "ok" THEN left ELSE rows
               /\ IF counters["success"] = 1
                  THEN /\ judgment' = "Pass"
                       /\ reason' = "TEST PASSED: No race condition detected"
                       /\ exitcode' = 0
                  ELSE /\ judgment' = "Fail"
                       /\ reason' = "TEST FAILED: Possible race condition"
                       /\ exitcode' = 1
    /\ UNCHANGED <<script, nonceVars, peak, token, atMostOnce, rowsAtDispatch>>
    /\ UNCHANGED unitVars

PreciseUnit ==
    \E u \in UnitIds :
        \/ \E ans \in TargetAnswers : HttpAnswer(u, ans)
        \/ \E ans \in TargetAnswers : HttpLost(u, ans)
        \/ HttpFail(u)
        \/ LockAcquire(u)
        \/ CounterWrite(u)

NextPrecise ==
    \/ PreciseCleanup
    \/ PoolSubmit
    \/ \E u \in UnitIds : PoolStart(u)
    \/ PoolJoin
    \/ PreciseReport
    \/ PreciseUnit

SpecPrecise == PreciseInit /\ [][NextPrecise]_vars

PreciseCounters == {"success", "conflict", "db_error", "other"}

RECURSIVE SumCounters(_)
SumCounters(S) ==
    IF S = {} THEN 0
    ELSE LET c == CHOOSE x \in S : TRUE
         IN counters[c] + SumCounters(S \ {c})

\* C1: partition property of precise_race_test: whatever the per-call
\* results (201, 409, 500 with or without the marker, 401, timeout,
\* connection error), every invocation that has returned is counted in
\* exactly one of the four counters, and when the run ends the counters sum
\* to exactly num_requests.
C1_Partition ==
    /\ SumCounters(PreciseCounters) =
           Cardinality({u \in UnitIds : upc[u] = "done"})
    /\ \A c \in CounterNames \ PreciseCounters : counters[c] = 0
    /\ pc \in {"report", "exit"} => SumCounters(PreciseCounters) = NumRequests

\* C1 witness: a finished run that saw a success, an exception and an
\* answer that is neither 201 nor 409.
C1_Witness ==
    /\ pc = "exit"
    /\ counters["success"] >= 1
    /\ \E u \in UnitIds : uout[u].kind \in {"timeout", "connerr"}
    /\ \E u \in UnitIds : uout[u].kind = "response" /\ uout[u].status = 500

\* The classification of RaceTest.create_tenant written as an ordered rule
\* list: (status, whether the body must hold "1062", verdict).
Rules ==
    << [status |-> 201, marker |-> FALSE, verdict |-> "success"],
       [status |-> 409, marker |-> FALSE, verdict |-> "conflict"],
       [status |-> 500, marker |-> TRUE, verdict |-> "db_error"] >>

RuleMatches(r, out) ==
    /\ out.kind = "response"
    /\ out.status = r.status
    /\ r.marker => out.marker

RECURSIVE FirstMatch(_, _)
FirstMatch(rules, out) ==
    IF rules = << >> THEN "other"
    ELSE IF RuleMatches(Head(rules), out) THEN Head(rules).verdict
    ELSE FirstMatch(Tail(rules), out)

\* C10: the classification done by RaceTest.create_tenant gives every
\* outcome the verdict of the first rule of the ordered list that matches
\* it, and "other" (UnexpectedError) when no rule matches: each counter
\* holds exactly the invocations whose first matching rule names it.
C10_FirstMatchWins ==
    \A c \in CounterNames :
        counters[c] = Cardinality({u \in UnitIds :
                          upc[u] = "done" /\ FirstMatch(Rules, uout[u]) = c})

\* C10 witness: a finished run with an outcome matched by the third rule
\* (500 with the marker) and one matched by no rule (500 without it).
C10_Witness ==
    /\ pc = "exit"
    /\ \E u \in UnitIds : uout[u] = Response(500, TRUE)
    /\ \E u \in UnitIds : uout[u] = Response(500, FALSE)
    /\ counters["db_error"] = 1
    /\ counters["other"] >= 1

(***************************************************************************)
(* tenant_race_test.py                                                     *)
(***************************************************************************)

\* Number of collected results whose status is in S.
CountStatus(S) ==
    Cardinality({k \in 1 .. Len(results) : results[k].status \in S})

\* The tuple create_tenant returns: (status_code, text), status 0 for an
\* exception.  "by" is the invocation it came from; the scripts do not
\* store it.
ResultOf(u) == [by |-> u, status |-> uout[u].status, marker |-> uout[u].marker]

\* for future in as_completed(futures): results.append(future.result())
Collect(u) ==
    /\ pc = "wait"
    /\ upc[u] = "returned"
    /\ results' = Append(results, ResultOf(u))
    /\ upc' = [upc EXCEPT ![u] = "done"]
    /\ UNCHANGED <<script, nonceVars, peak, pc, uout, utmp, lock, counters, token>>
    /\ UNCHANGED reportVars
    /\ UNCHANGED targetVars

TenantInit ==
    /\ script = "tenant_race_test"
    /\ CommonInit
    /\ token \in {"tok", ""}
    /\ rows \in 0 .. MaxStale
    /\ atMostOnce \in BOOLEAN

\* test_tenant_slug_race before the burst: the token, the search for an
\* existing tenant and, when the search is answered 200 and finds one, the
\* DELETE of the first tenant found (its answer is only printed).
TenantSetup ==
    /\ script = "tenant_race_test"
    /\ pc = "start"
    /\ \E check \in SearchResults : \E del \in {"deleted", "kept", "raise"} :
          IF check = "raise" \/ (check = "ok" /\ rows > 0 /\ del = "raise")
          THEN Crash /\ UNCHANGED <<rows, rowsAtDispatch>>
          ELSE /\ pc' = "submit"
               /\ rows' = (IF check = "ok" /\ rows > 0 /\ del = "deleted"
                           THEN rows - 1 ELSE rows)
               /\ rowsAtDispatch' = rows'
               /\ UNCHANGED reportVars
    /\ UNCHANGED <<script, nonceVars, peak, token, atMostOnce>>
    /\ UNCHANGED unitVars

\* The evaluator with the first test off by one.
TenantEvaluateOffByOne(success, conflict) ==
    IF success > 2
    THEN [judgment |-> "Fail", reason |-> "RACE CONDITION DETECTED", ret |-> FALSE]
    ELSE IF success = 1 /\ conflict = NumRequests - 1
    THEN [judgment |-> "Pass", reason |-> "PASS", ret |-> TRUE]
    ELSE [judgment |-> "Fail", reason |-> "UNEXPECTED", ret |-> FALSE]

\* The evaluator expecting one conflict too many.
TenantEvaluateAllConflict(success, conflict) ==
    IF success > 1
    THEN [judgment |-> "Fail", reason |-> "RACE CONDITION DETECTED", ret |-> FALSE]
    ELSE IF success = 1 /\ conflict = NumRequests
    THEN [judgment |-> "Pass", reason |-> "PASS", ret |-> TRUE]
    ELSE [judgment |-> "Fail", reason |-> "UNEXPECTED", ret |-> FALSE]

\* test_tenant_slug_race's verdict on the counts (20 requests in the script,
\* hence its 19 conflicts).
TenantEvaluate(success, conflict) ==
    IF success > 1
    THEN [judgment |-> "Fail", reason |-> "RACE CONDITION DETECTED", ret |-> FALSE]
    ELSE IF success = 1 /\ conflict = NumRequests - 1
    THEN [judgment |-> "Pass", reason |-> "PASS", ret |-> TRUE]
    ELSE [judgment |-> "Fail", reason |-> "UNEXPECTED", ret |-> FALSE]

\* test_tenant_slug_race after the burst: the counts, the verifying search,
\* the verdict, and __main__'s exit(0 if success else 1).
TenantReport ==
    /\ script = "tenant_race_test"
    /\ pc = "report"
    /\ \E v \in SearchResults :
          IF v = "raise"
          THEN Crash
          ELSE LET ev == TenantEvaluate(CountStatus({201}), CountStatus({409}))
               IN /\ pc' = "exit"
                  /\ judgment' = ev.judgment
                  /\ reason' = ev.reason
                  /\ exitcode' = (IF ev.ret THEN 0 ELSE 1)
                  /\ truth' = (IF v = "ok" THEN <<rows>> ELSE << >>)
    /\ UNCHANGED <<script, nonceVars, peak, token>>
    /\ UNCHANGED unitVars
    /\ UNCHANGED targetVars

TenantUnit ==
    \E u \in UnitIds :
        \/ \E ans \in TargetAnswers : HttpAnswer(u, ans)
        \/ \E ans \in TargetAnswers : HttpLost(u, ans)
        \/ HttpFail(u)
        \/ Collect(u)

NextTenant ==
    \/ TenantSetup
    \/ PoolSubmit
    \/ \E u \in UnitIds : PoolStart(u)
    \/ PoolJoin
    \/ TenantReport
    \/ TenantUnit

SpecTenant == TenantInit /\ [][NextTenant]_vars

\* C7: test_tenant_slug_race's verdict for more than one success is Fail with
\* the multiplicity message (RACE CONDITION DETECTED) and exit status 1,
\* whatever the numbers of conflicts and of other outcomes.
C7_MultiplicityFail ==
    (pc = "exit" /\ CountStatus({201}) > 1) =>
        /\ judgment = "Fail"
        /\ reason = "RACE CONDITION DETECTED"
        /\ exitcode = 1

\* C7 witness: a finished run with two successes and one conflict.
C7_Witness ==
    /\ pc = "exit"
    /\ CountStatus({201}) = 2
    /\ CountStatus({409}) = 1
    /\ judgment = "Fail"

\* C9 as stated: an at-most-once target and a burst dispatched (with a valid
\* token) against a clean state always give one success, N-1 conflicts and
\* Pass.
C9_AsStated ==
    (pc = "exit" /\ token # "" /\ atMostOnce /\ rowsAtDispatch = 0) =>
        /\ CountStatus({201}) = 1
        /\ CountStatus({409}) = NumRequests - 1
        /\ judgment = "Pass"

\* C9 (amended): when the target enforces at-most-once, the burst is
\* dispatched against a clean state and every one of the N calls returns
\* the target's 201 or 409 answer (none times out, fails in transport or
\* is answered with another status), the run counts one success and N-1
\* conflicts and the verdict is Pass with exit status 0.
C9_ExpectedPass ==
    (/\ pc = "exit"
     /\ atMostOnce
     /\ rowsAtDispatch = 0
     /\ \A k \in 1 .. Len(results) : results[k].status \in {201, 409}) =>
        /\ CountStatus({201}) = 1
        /\ CountStatus({409}) = NumRequests - 1
        /\ judgment = "Pass"
        /\ exitcode = 0

\* C9 witness: such a run, ended with Pass.
C9_Witness ==
    /\ pc = "exit"
    /\ atMostOnce
    /\ rowsAtDispatch = 0
    /\ Len(results) = NumRequests
    /\ \A k \in 1 .. Len(results) : results[k].status \in {201, 409}
    /\ judgment = "Pass"

(***************************************************************************)
(* asyncio.gather, as the asyncio scripts use it                           *)
(***************************************************************************)

\* gather makes a task of every coroutine; each task runs up to its first
\* await, which for an aiohttp request is the connection: all requests of
\* the burst are under way before any answer is looked at.
GatherAll ==
    upc' = [u \in AllUnits |-> IF u \in UnitIds THEN "call" ELSE upc[u]]

\* race_test_grpc's coroutine blocks in subprocess.run and never awaits, so
\* the event loop runs its tasks one after the other, in the order of the
\* task list.
SeqStart(u) ==
    /\ pc = "gather"
    /\ upc[u] = "new"
    /\ \A v \in UnitIds : v < u => upc[v] = "returned"
    /\ upc' = [upc EXCEPT ![u] = "call"]
    /\ peak' = PeakAfter(upc')
    /\ UNCHANGED <<script, nonceVars, pc, uout, utmp, lock, counters, results, token>>
    /\ UNCHANGED reportVars
    /\ UNCHANGED targetVars

\* What gather returns: the tasks' results in the order of the task list.
GatherResults == [k \in 1 .. NumRequests |-> ResultOf(k - 1)]

AllReturned == \A u \in UnitIds : upc[u] = "returned"

\* The target's answer arrives with a body that is not JSON.
HttpGarbled(u, ans) ==
    /\ upc[u] = "call"
    /\ ans \in TargetAnswers
    /\ rows' = RowsAfter(ans)
    /\ uout' = [uout EXCEPT ![u] = Out("garbled", ans.status, FALSE)]
    /\ upc' = [upc EXCEPT ![u] = AfterCall]
    /\ UNCHANGED <<script, nonceVars, peak, pc, utmp, lock, counters, results, token, atMostOnce,
                   rowsAtDispatch>>
    /\ UNCHANGED reportVars

(***************************************************************************)
(* race_test.py                                                            *)
(***************************************************************************)

RaceTestInit ==
    /\ script = "race_test"
    /\ CommonInit
    /\ token = "tok"
    /\ rows \in 0 .. MaxStale
    /\ atMostOnce \in BOOLEAN

\* main: the session, the task list, await asyncio.gather(*tasks).
RaceTestGather ==
    /\ script = "race_test"
    /\ pc = "start"
    /\ pc' = "gather"
    /\ GatherAll
    /\ rowsAtDispatch' = rows
    /\ peak' = PeakAfter(upc')
    /\ UNCHANGED <<script, nonceVars, token, rows, atMostOnce>>
    /\ UNCHANGED <<uout, utmp, lock, counters, results>>
    /\ UNCHANGED reportVars

\* reset has no try: an exception of session.post leaves the task, gather
\* hands the first one to main, and main ends with it; results is never
\* assigned.
RaceTestRaise ==
    /\ script = "race_test"
    /\ pc = "gather"
    /\ \E u \in UnitIds :
          upc[u] = "returned" /\ uout[u].kind \in {"timeout", "connerr"}
    /\ Crash
    /\ UNCHANGED <<script, nonceVars, peak, token>>
    /\ UNCHANGED unitVars
    /\ UNCHANGED targetVars

\* main after gather: results.count(200), the printed line, the assert.
RaceTestFinish ==
    /\ script = "race_test"
    /\ pc = "gather"
    /\ AllReturned
    /\ \A u \in UnitIds : uout[u].kind = "response"
    /\ results' = GatherResults
    /\ LET success == Cardinality({u \in UnitIds : uout[u].status = 200})
       IN IF success <= 1
          THEN /\ pc' = "exit"
               /\ judgment' = "Pass"
               /\ reason' = None
               /\ exitcode' = 0
          ELSE /\ pc' = "crashed"
               /\ judgment' = "Fail"
               /\ reason' = "AssertionError: RACE CONDITION"
               /\ exitcode' = 1
    /\ truth' = truth
    /\ UNCHANGED <<script, nonceVars, peak, token, upc, uout, utmp, lock, counters>>
    /\ UNCHANGED targetVars

RaceTestUnit ==
    \E u \in UnitIds :
        \/ \E ans \in TargetAnswers : HttpAnswer(u, ans)
        \/ \E ans \in TargetAnswers : HttpLost(u, ans)
        \/ HttpFail(u)

NextRaceTest ==
    \/ RaceTestGather
    \/ RaceTestRaise
    \/ RaceTestFinish
    \/ RaceTestUnit

SpecRaceTest == RaceTestInit /\ [][NextRaceTest]_vars

\* C3: no failure inside one invocation terminates the run or keeps the
\* outcomes from being collected: whenever the script has ended after
\* dispatching its burst, it holds all N outcomes.
C3_NoFailureEndsRun ==
    (Ended /\ \E u \in UnitIds : upc[u] # "new") => Len(results) = NumRequests

(***************************************************************************)
(* race_test_grpc.py                                                       *)
(***************************************************************************)

\* What grpcurl can give back to race_test_grpc's exchange_token: exit 0
\* with a JSON object holding accessToken ("token") or lacking it
\* ("notoken"), exit 0 with output that is not JSON ("garbled"), a non-zero
\* exit ("nonzero"), or subprocess.run itself raising ("oserror").
GrpcAsyncRawOutcomes == {"token", "notoken", "garbled", "nonzero", "oserror"}

\* The dict race_test_grpc's exchange_token returns: exit 0 with JSON is a
\* success with status '200' whether or not the object holds accessToken;
\* json.loads failing and subprocess.run raising are caught by the except
\* clause; a non-zero exit is 'error'.
GrpcAsyncResult(u) ==
    LET k == uout[u].kind
    IN [by |-> u + 1,
        success |-> k \in {"token", "notoken"},
        status |-> IF k \in {"token", "notoken"} THEN "200"
                   ELSE IF k = "nonzero" THEN "error" ELSE "exception"]

GrpcAsyncInit ==
    /\ script = "race_test_grpc"
    /\ CommonInit
    /\ token \in {"tok", ""}
    /\ rows = 0
    /\ atMostOnce = TRUE

\* run_concurrent_test up to gather: gen-admin-token.sh (an empty token
\* ends the function), the mysql query for the tenant id, the task list.
\* subprocess.run raises when the program cannot be started.
GrpcAsyncSetup ==
    /\ script = "race_test_grpc"
    /\ pc = "start"
    /\ \E r \in {"ok", "raise"} :
          IF r = "raise"
          THEN Crash
          ELSE /\ pc' = IF token = "" THEN "exit" ELSE "gather"
               /\ UNCHANGED reportVars
    /\ UNCHANGED <<script, nonceVars, peak, token>>
    /\ UNCHANGED unitVars
    /\ UNCHANGED targetVars

\* subprocess.run(cmd, capture_output=True, text=True) returns or raises.
GrpcAsyncRespond(u, k) ==
    /\ upc[u] = "call"
    /\ k \in GrpcAsyncRawOutcomes
    /\ uout' = [uout EXCEPT ![u] = Out(k, 0, FALSE)]
    /\ upc' = [upc EXCEPT ![u] = "returned"]
    /\ UNCHANGED <<script, nonceVars, peak, pc, utmp, lock, counters, results, token>>
    /\ UNCHANGED reportVars
    /\ UNCHANGED targetVars

\* The grpcurl child does not end.  subprocess.run is called without a
\* timeout, so nothing brings the call back.
GrpcAsyncHang(u) ==
    /\ upc[u] = "call"
    /\ upc' = [upc EXCEPT ![u] = "hung"]
    /\ UNCHANGED <<script, nonceVars, peak, pc, uout, utmp, lock, counters, results, token>>
    /\ UNCHANGED reportVars
    /\ UNCHANGED targetVars

\* run_concurrent_test after gather: the counts and the closing assessment.
\* The function returns None and the script exits with status 0.
GrpcAsyncFinish ==
    /\ script = "race_test_grpc"
    /\ pc = "gather"
    /\ AllReturned
    /\ results' = [k \in 1 .. NumRequests |-> GrpcAsyncResult(k - 1)]
    /\ LET success_count ==
               Cardinality({u \in UnitIds : GrpcAsyncResult(u).success})
       IN /\ judgment' = IF success_count > 0 THEN "Pass" ELSE "Fail"
          /\ reason' = IF success_count = NumRequests THEN "all succeeded"
                       ELSE IF success_count > 0 THEN "some succeeded"
                       ELSE "all failed"
    /\ pc' = "exit"
    /\ exitcode' = 0
    /\ truth' = truth
    /\ UNCHANGED <<script, nonceVars, peak, token, upc, uout, utmp, lock, counters>>
    /\ UNCHANGED targetVars

GrpcAsyncUnit ==
    \E u \in UnitIds :
        \/ SeqStart(u)
        \/ \E k \in GrpcAsyncRawOutcomes : GrpcAsyncRespond(u, k)
        \/ GrpcAsyncHang(u)

NextGrpcAsync ==
    \/ GrpcAsyncSetup
    \/ GrpcAsyncFinish
    \/ GrpcAsyncUnit

SpecGrpcAsync == GrpcAsyncInit /\ [][NextGrpcAsync]_vars

\* C4: a hung call does not stall the run: as long as the script has not
\* ended it can take a further step towards its report, whatever calls
\* hang.
C4_HungCallDoesNotStall == Ended \/ ENABLED NextGrpcAsync

(***************************************************************************)
(* race_test_password.py                                                   *)
(***************************************************************************)

\* The dict reset_password returns: the status and success = (status is
\* 200) when the body parses; status 0 and success False when session.post
\* or resp.json() raises.
PasswordResult(u) ==
    IF uout[u].kind = "response"
    THEN [by |-> u, status |-> uout[u].status, marker |-> uout[u].marker,
          success |-> uout[u].status = 200]
    ELSE [by |-> u, status |-> 0, marker |-> FALSE, success |-> FALSE]

\* The token of the burst is the fixed text of line 47, not one the target
\* issued: the target holds nothing redeemable for it (rows = 1), and
\* answers 200 only if it does not check.
PasswordInit ==
    /\ script = "race_test_password"
    /\ CommonInit
    /\ token = "test-token-needs-to-be-replaced"
    /\ rows = 1
    /\ atMostOnce \in BOOLEAN

\* main up to gather: the forgot-password request (any status but 200 ends
\* main; an exception of session.post is not caught), the sleep, the task
\* list, await asyncio.gather(*tasks).
PasswordSetup ==
    /\ script = "race_test_password"
    /\ pc = "start"
    /\ \E r \in {"ok", "bad", "raise"} :
          CASE r = "raise" -> Crash /\ UNCHANGED <<upc, rowsAtDispatch, peak>>
            [] r = "bad" -> /\ pc' = "exit"
                            /\ UNCHANGED reportVars
                            /\ UNCHANGED <<upc, rowsAtDispatch, peak>>
            [] r = "ok" -> /\ pc' = "gather"
                           /\ GatherAll
                           /\ peak' = PeakAfter(upc')
                           /\ rowsAtDispatch' = rows
                           /\ UNCHANGED reportVars
    /\ UNCHANGED <<script, nonceVars, token, rows, atMostOnce>>
    /\ UNCHANGED <<uout, utmp, lock, counters, results>>

\* The verdict main prints for success_count.
PasswordEvaluate(success_count) ==
    IF success_count > 1
    THEN [judgment |-> "Fail", reason |-> "race condition detected"]
    ELSE [judgment |-> "Pass", reason |-> "safe: one reset succeeded (or none)"]

\* main after gather: the counts and the verdict; the script exits with
\* status 0 whatever the verdict.
PasswordFinish ==
    /\ script = "race_test_password"
    /\ pc = "gather"
    /\ AllReturned
    /\ results' = [k \in 1 .. NumRequests |-> PasswordResult(k - 1)]
    /\ LET ev == PasswordEvaluate(
                     Cardinality({u \in UnitIds : PasswordResult(u).success}))
       IN /\ judgment' = ev.judgment
          /\ reason' = ev.reason
    /\ pc' = "exit"
    /\ exitcode' = 0
    /\ truth' = truth
    /\ UNCHANGED <<script, nonceVars, peak, token, upc, uout, utmp, lock, counters>>
    /\ UNCHANGED targetVars

PasswordUnit ==
    \E u \in UnitIds :
        \/ \E ans \in TargetAnswers : HttpAnswer(u, ans)
        \/ \E ans \in TargetAnswers : HttpGarbled(u, ans)
        \/ \E ans \in TargetAnswers : HttpLost(u, ans)
        \/ HttpFail(u)

NextPassword ==
    \/ PasswordSetup
    \/ PasswordFinish
    \/ PasswordUnit

SpecPassword == PasswordInit /\ [][NextPassword]_vars

\* C6: when none of the N outcomes is a success and none is the target's
\* rejection of a taken key, the verdict is Inconclusive, never Pass.
C6_ZeroZeroIsInconclusive ==
    (/\ pc = "exit"
     /\ Len(results) = NumRequests
     /\ \A k \in 1 .. Len(results) :
           ~results[k].success /\ results[k].status \notin {400, 404, 409}) =>
        judgment = "Inconclusive"

(***************************************************************************)
(* invitation_race_test.py                                                 *)
(***************************************************************************)

\* The user of the burst is registered by the script under a fresh address:
\* the target holds no membership for it when the script starts.
InvitationInit ==
    /\ script = "invitation_race_test"
    /\ CommonInit
    /\ token \in {"tok", ""}
    /\ rows = 0
    /\ atMostOnce \in BOOLEAN

\* test_invitation_race before the burst: the token, the tenant id,
\* create_invitation (any status but 200/201, 0 for an exception, makes the
\* function return False), then register and login, whose requests.post is
\* outside any try.
InvitationSetup ==
    /\ script = "invitation_race_test"
    /\ pc = "start"
    /\ \E r \in (IF token = "" THEN {"bad", "raise"} ELSE {"ok", "bad", "raise"}) :
          CASE r = "raise" -> Crash /\ UNCHANGED rowsAtDispatch
            [] r = "bad" -> /\ pc' = "exit"
                            /\ judgment' = "Fail"
                            /\ reason' = "Failed to create invitation"
                            /\ exitcode' = 1
                            /\ UNCHANGED <<truth, rowsAtDispatch>>
            [] r = "ok" -> /\ pc' = "submit"
                           /\ rowsAtDispatch' = rows
                           /\ UNCHANGED reportVars
    /\ UNCHANGED <<script, nonceVars, peak, token, rows, atMostOnce>>
    /\ UNCHANGED unitVars

\* test_invitation_race's verdict: it looks at success_count only.
InvitationEvaluate(success_count) ==
    IF success_count > 1
    THEN [judgment |-> "Fail", reason |-> "FAIL", ret |-> FALSE]
    ELSE IF success_count = 1
    THEN [judgment |-> "Pass", reason |-> "PASS", ret |-> TRUE]
    ELSE [judgment |-> "Fail", reason |-> "UNEXPECTED", ret |-> FALSE]

\* test_invitation_race after the burst: the counts, the database
\* verification (skipped when the user or tenant id comes back empty;
\* int() of an empty mysql output raises), the verdict and __main__'s
\* exit(0 if success else 1).  tenant_user_count is printed and not used.
InvitationReport ==
    /\ script = "invitation_race_test"
    /\ pc = "report"
    /\ \E db \in {"ok", "skip", "raise"} :
          IF db = "raise"
          THEN Crash
          ELSE LET ev == InvitationEvaluate(CountStatus({200}))
               IN /\ pc' = "exit"
                  /\ judgment' = ev.judgment
                  /\ reason' = ev.reason
                  /\ exitcode' = (IF ev.ret THEN 0 ELSE 1)
                  /\ truth' = (IF db = "ok" THEN <<rows>> ELSE << >>)
    /\ UNCHANGED <<script, nonceVars, peak, token>>
    /\ UNCHANGED unitVars
    /\ UNCHANGED targetVars

InvitationUnit ==
    \E u \in UnitIds :
        \/ \E ans \in TargetAnswers : HttpAnswer(u, ans)
        \/ \E ans \in TargetAnswers : HttpLost(u, ans)
        \/ HttpFail(u)
        \/ Collect(u)

NextInvitation ==
    \/ InvitationSetup
    \/ PoolSubmit
    \/ \E u \in UnitIds : PoolStart(u)
    \/ PoolJoin
    \/ InvitationReport
    \/ InvitationUnit

SpecInvitation == InvitationInit /\ [][NextInvitation]_vars

\* C8: when the database verification supplies a count that differs from
\* the number of successes observed, the verdict is Fail, never Pass.
C8_MismatchIsFail ==
    (/\ pc = "exit"
     /\ truth # << >>
     /\ Len(results) = NumRequests
     /\ truth[1] # CountStatus({200})) =>
        judgment = "Fail"

\* C11: default-deny in grpc_race_test: only a call whose output matched
\* the success rule (exit 0, JSON holding accessToken) is counted as a
\* success; output that cannot be parsed is never counted as one.
C11_DefaultDeny ==
    counters["success"] <=
        Cardinality({u \in AllUnits : uout[u].kind = "token"})

\* C12: clean start in tenant_race_test: no request of the burst is handed
\* to the pool while the target still holds a tenant for the slug.
C12_CleanStart ==
    (\E u \in UnitIds : upc[u] # "new") => rowsAtDispatch = 0

\* C13: a failed credential fetch is fatal before dispatch: when the token
\* helper printed nothing, tenant_race_test hands no request of the burst
\* to the pool.
C13_NoDispatchWithoutToken ==
    token = "" => \A u \in UnitIds : upc[u] = "new"

(***************************************************************************)
(* race_test_simple.py                                                     *)
(***************************************************************************)

\* TOKEN is a fixed text: the target may hold it unredeemed (rows = 0) or
\* already redeemed.
SimpleInit ==
    /\ script = "race_test_simple"
    /\ CommonInit
    /\ token = "tok"
    /\ rows \in 0 .. MaxStale
    /\ atMostOnce \in BOOLEAN

\* main: with ThreadPoolExecutor(max_workers=50) as executor.
SimpleStart ==
    /\ script = "race_test_simple"
    /\ pc = "start"
    /\ pc' = "submit"
    /\ rowsAtDispatch' = rows
    /\ UNCHANGED <<script, nonceVars, peak, token, rows, atMostOnce>>
    /\ UNCHANGED unitVars
    /\ UNCHANGED reportVars

\* The verdict main prints for success_count.
SimpleEvaluate(success_count) ==
    IF success_count > 1
    THEN [judgment |-> "Fail", reason |-> "RACE CONDITION DETECTED"]
    ELSE IF success_count = 1
    THEN [judgment |-> "Pass", reason |-> "PASS"]
    ELSE [judgment |-> "Fail", reason |-> "FAIL: No successful resets"]

\* main after the burst: the counts, the verdict, the samples.  main
\* returns None and __main__ calls nothing else: the exit status is 0.
SimpleReport ==
    /\ script = "race_test_simple"
    /\ pc = "report"
    /\ LET ev == SimpleEvaluate(CountStatus({200}))
       IN /\ judgment' = ev.judgment
          /\ reason' = ev.reason
    /\ pc' = "exit"
    /\ exitcode' = 0
    /\ truth' = truth
    /\ UNCHANGED <<script, nonceVars, peak, token>>
    /\ UNCHANGED unitVars
    /\ UNCHANGED targetVars

SimpleUnit ==
    \E u \in UnitIds :
        \/ \E ans \in TargetAnswers : HttpAnswer(u, ans)
        \/ \E ans \in TargetAnswers : HttpLost(u, ans)
        \/ HttpFail(u)
        \/ Collect(u)

NextSimple ==
    \/ SimpleStart
    \/ PoolSubmit
    \/ \E u \in UnitIds : PoolStart(u)
    \/ PoolJoin
    \/ SimpleReport
    \/ SimpleUnit

SpecSimple == SimpleInit /\ [][NextSimple]_vars

\* C14: the exit status of a finished run is 0 exactly when its judgment is
\* Pass.
C14_ExitCodeIffPass ==
    pc = "exit" => (exitcode = 0 <=> judgment = "Pass")

\* C15: in grpc_race_test's burst every unit has been given its request
\* number (has been submitted with it) before any unit is released to a
\* worker, the numbers of the burst are pairwise distinct, and every entry
\* of responses carries the number of the unit that appended it.
C15_NumbersBeforeRelease ==
    /\ (\E u \in UnitIds : upc[u] \notin {"new", "queued"}) =>
           \A v \in UnitIds : upc[v] # "new"
    /\ \A u, v \in UnitIds : u # v => RequestId(u) # RequestId(v)
    /\ \A k \in 1 .. Len(results) :
           \E u \in DoneUnits : results[k] = GrpcEntry(u)

\* C16: at every moment of grpc_race_test's run the number of run_exchange
\* calls in flight is at most max_workers, also when num_requests exceeds
\* it.
C16_InFlightBounded == Running <= PoolSize

\* C16 witness: the pool is full while a further request waits in the
\* queue.
C16_Witness ==
    /\ NumRequests > PoolSize
    /\ Running = PoolSize
    /\ \E u \in UnitIds : upc[u] = "queued"

\* The concurrency figure the script prints: run_test's "Concurrency:
\* {concurrency}" (its max_workers) in grpc_race_test, and the number of
\* requests announced as sent at the same time in race_test_grpc.
ReportedConcurrency ==
    IF script = "grpc_race_test" THEN Concurrency ELSE NumRequests

\* C17: the concurrency figure reported for a finished burst is the largest
\* number of invocations that were in flight at the same time.
C17_ReportsEffectiveConcurrency ==
    (pc = "exit" /\ Len(results) = NumRequests) => ReportedConcurrency = peak

\* C18 as stated: in precise_race_test classification, evaluation and the
\* verifying search start only after all N requests have resolved: no
\* request is classified (its counter chosen and written) while another
\* has not yet returned from its call, and the report is made only when
\* every unit is done.
C18_AsStated ==
    /\ pc \in {"report", "exit"} => \A u \in UnitIds : upc[u] = "done"
    /\ (\E u \in UnitIds : upc[u] \in {"write", "done"}) =>
           \A v \in UnitIds : upc[v] \in {"ret", "write", "done"}

\* C18 (amended): the evaluation of the counts and the verifying search of
\* precise_race_test start only after all N requests have resolved and
\* been counted, with the lock free, and no step changes a counter while
\* or after the counts are evaluated.  (Each request is classified by its
\* own worker, under the lock, as soon as it returns.)
C18_EvaluateAfterAllResolved ==
    /\ [](pc \in {"report", "exit"} =>
             (lock = {} /\ \A u \in UnitIds : upc[u] = "done"))
    /\ [][(pc \in {"report", "exit"}) => (counters' = counters)]_vars

\* C18 witness: a finished run whose verifying search was answered, all
\* requests counted.
C18_Witness ==
    /\ pc = "exit"
    /\ truth # << >>
    /\ SumCounters(PreciseCounters) = NumRequests
    /\ \A u \in UnitIds : upc[u] = "done"

(***************************************************************************)
(* full_race_test.py                                                       *)
(***************************************************************************)

\* token is what get_reset_token hands out ("" for None).  A token it hands
\* out is fresh: the target holds no redemption of it.
FullInit ==
    /\ script = "full_race_test"
    /\ CommonInit
    /\ token \in {"tok", ""}
    /\ rows = 0
    /\ atMostOnce \in BOOLEAN

\* test_concurrent_reset, step 1: get_reset_token (its requests are outside
\* any try); without a token the function returns False.  Step 2 then
\* starts the single request made with the token.
FullSetup ==
    /\ script = "full_race_test"
    /\ pc = "start"
    /\ \E r \in {"ok", "raise"} :
          IF r = "raise"
          THEN Crash /\ upc' = upc
          ELSE IF token = ""
          THEN /\ pc' = "exit"
               /\ judgment' = "Fail"
               /\ reason' = "Failed to get reset token"
               /\ exitcode' = 1
               /\ UNCHANGED <<truth, upc>>
          ELSE /\ pc' = "probe"
               /\ upc' = [upc EXCEPT ![Probe] = "call"]
               /\ UNCHANGED reportVars
    /\ UNCHANGED <<script, nonceVars, peak, token, uout, utmp, lock, counters, results>>
    /\ UNCHANGED targetVars

\* Step 2 after the single request: any status but 200 (0 for an exception)
\* makes the script fetch another token; with status 200 the burst uses
\* the token the single request was made with.  status and text are not
\* read again.
FullProbeDone ==
    /\ script = "full_race_test"
    /\ pc = "probe"
    /\ upc[Probe] = "returned"
    /\ IF uout[Probe].kind = "response" /\ uout[Probe].status = 200
       THEN /\ pc' = "submit"
            /\ rows' = rows
            /\ rowsAtDispatch' = rows
            /\ UNCHANGED reportVars
       ELSE \E r \in {"fresh", "none", "raise"} :
              CASE r = "raise" -> Crash /\ UNCHANGED <<rows, rowsAtDispatch>>
                [] r = "none" -> /\ pc' = "exit"
                                 /\ judgment' = "Fail"
                                 /\ reason' = "Failed to get reset token"
                                 /\ exitcode' = 1
                                 /\ UNCHANGED <<truth, rows, rowsAtDispatch>>
                [] r = "fresh" -> /\ pc' = "submit"
                                  /\ rows' = 0
                                  /\ rowsAtDispatch' = 0
                                  /\ UNCHANGED reportVars
    /\ upc' = [upc EXCEPT ![Probe] = "done"]
    /\ uout' = [uout EXCEPT ![Probe] = NoOut]
    /\ UNCHANGED <<script, nonceVars, peak, token, atMostOnce, utmp, lock, counters, results>>

\* A verdict drawn from the first result collected alone.
FullEvaluateFirstCollected(res) ==
    LET success_count == IF Len(res) > 0 /\ res[1].status = 200 THEN 1 ELSE 0
    IN IF success_count > 1
       THEN [judgment |-> "Fail", reason |-> "RACE CONDITION DETECTED",
             success |-> success_count, ret |-> FALSE]
       ELSE IF success_count = 1
       THEN [judgment |-> "Pass", reason |-> "PASS",
             success |-> success_count, ret |-> TRUE]
       ELSE [judgment |-> "Fail", reason |-> "FAIL: No successful resets",
             success |-> success_count, ret |-> FALSE]

\* test_concurrent_reset's analysis of the list of results: success_count
\* and the verdict drawn from it.
FullEvaluate(res) ==
    LET success_count ==
            Cardinality({k \in 1 .. Len(res) : res[k].status = 200})
    IN IF success_count > 1
       THEN [judgment |-> "Fail", reason |-> "RACE CONDITION DETECTED",
             success |-> success_count, ret |-> FALSE]
       ELSE IF success_count = 1
       THEN [judgment |-> "Pass", reason |-> "PASS",
             success |-> success_count, ret |-> TRUE]
       ELSE [judgment |-> "Fail", reason |-> "FAIL: No successful resets",
             success |-> success_count, ret |-> FALSE]

\* test_concurrent_reset after the burst and __main__'s
\* exit(0 if success else 1).  counters holds the printed success count.
FullReport ==
    /\ script = "full_race_test"
    /\ pc = "report"
    /\ LET ev == FullEvaluate(results)
       IN /\ judgment' = ev.judgment
          /\ reason' = ev.reason
          /\ exitcode' = (IF ev.ret THEN 0 ELSE 1)
          /\ counters' = [counters EXCEPT !["success"] = ev.success]
    /\ pc' = "exit"
    /\ truth' = truth
    /\ UNCHANGED <<script, nonceVars, peak, token, upc, uout, utmp, lock, results>>
    /\ UNCHANGED targetVars

FullUnit ==
    \E u \in AllUnits :
        \/ \E ans \in TargetAnswers : HttpAnswer(u, ans)
        \/ \E ans \in TargetAnswers : HttpLost(u, ans)
        \/ HttpFail(u)
        \/ Collect(u)

NextFull ==
    \/ FullSetup
    \/ FullProbeDone
    \/ PoolSubmit
    \/ \E u \in UnitIds : PoolStart(u)
    \/ PoolJoin
    \/ FullReport
    \/ FullUnit

SpecFull == FullInit /\ [][NextFull]_vars

\* C19: the verdict of full_race_test does not depend on the order in which
\* the results were collected: the success count and the judgment drawn
\* from the list in completion order are those drawn from the same outcomes
\* listed in dispatch order.
C19_OrderIndependent ==
    (pc = "exit" /\ Len(results) = NumRequests) =>
        LET ev == FullEvaluate(GatherResults)
        IN /\ judgment = ev.judgment
           /\ reason = ev.reason
           /\ counters["success"] = ev.success

\* C19 witness: a finished run whose results were collected in an order
\* other than the dispatch order and are not all alike.
C19_Witness ==
    /\ pc = "exit"
    /\ Len(results) = NumRequests
    /\ results[1].by > results[2].by
    /\ results[1].status # results[2].status

\* C20: an invariant violation is reported, not thrown: a run of
\* race_test.py in which more than one reset succeeded ends normally with a
\* Fail judgment, not with an assertion failure leaving main.
C20_ViolationReportedNotThrown ==
    (Ended /\ Len(results) = NumRequests /\ CountStatus({200}) > 1) =>
        (pc = "exit" /\ judgment = "Fail")

(***************************************************************************)
(* race_test_scenario1.py                                                  *)
(***************************************************************************)

\* token is a fixed text: the target may hold it unredeemed (rows = 0) or
\* already redeemed.
Scenario1Init ==
    /\ script = "race_test_scenario1"
    /\ CommonInit
    /\ token = "tok"
    /\ rows \in 0 .. MaxStale
    /\ atMostOnce \in BOOLEAN

\* test_password_reset_race: the session, the task list,
\* await asyncio.gather(*tasks).
Scenario1Gather ==
    /\ script = "race_test_scenario1"
    /\ pc = "start"
    /\ pc' = "gather"
    /\ GatherAll
    /\ peak' = PeakAfter(upc')
    /\ rowsAtDispatch' = rows
    /\ UNCHANGED <<script, nonceVars, token, rows, atMostOnce>>
    /\ UNCHANGED <<uout, utmp, lock, counters, results>>
    /\ UNCHANGED reportVars

\* A classifier that lets only the first success it meets count as one.
Scenario1ClassifyFirstWins(r) ==
    IF r.success /\ counters["success"] = 0 THEN "success"
    ELSE IF r.status \in {400, 404} THEN "error"
    ELSE "other"

\* The count one result adds to: success_count for r["success"],
\* error_count for status 400 or 404, other_count for the rest.
Scenario1Classify(r) ==
    IF r.success THEN "success"
    ELSE IF r.status \in {400, 404} THEN "error"
    ELSE "other"

\* The three counts of a list of results.
Scenario1Counts(res) ==
    [c \in CounterNames |->
        Cardinality({k \in 1 .. Len(res) : Scenario1Classify(res[k]) = c})]

\* The verdict test_password_reset_race returns for success_count.
Scenario1Evaluate(success_count) ==
    IF success_count > 1
    THEN [judgment |-> "Fail", reason |-> "FAIL", ret |-> FALSE]
    ELSE IF success_count = 1
    THEN [judgment |-> "Pass", reason |-> "PASS", ret |-> TRUE]
    ELSE [judgment |-> "Fail", reason |-> "no successful request", ret |-> FALSE]

\* test_password_reset_race after gather: the counts, the mysql query
\* (its output is only printed; subprocess.run raises when bash cannot be
\* started), the verdict and __main__'s exit(0 if success else 1).
Scenario1Finish ==
    /\ script = "race_test_scenario1"
    /\ pc = "gather"
    /\ AllReturned
    /\ LET res == [k \in 1 .. NumRequests |-> PasswordResult(k - 1)]
           cnt == Scenario1Counts(res)
           ev == Scenario1Evaluate(cnt["success"])
       IN /\ results' = res
          /\ counters' = cnt
          /\ \E db \in {"ok", "raise"} :
                IF db = "raise"
                THEN Crash
                ELSE /\ pc' = "exit"
                     /\ judgment' = ev.judgment
                     /\ reason' = ev.reason
                     /\ exitcode' = (IF ev.ret THEN 0 ELSE 1)
                     /\ truth' = truth
    /\ UNCHANGED <<script, nonceVars, peak, token, upc, uout, utmp, lock>>
    /\ UNCHANGED targetVars

Scenario1Unit ==
    \E u \in UnitIds :
        \/ \E ans \in TargetAnswers : HttpAnswer(u, ans)
        \/ \E ans \in TargetAnswers : HttpGarbled(u, ans)
        \/ \E ans \in TargetAnswers : HttpLost(u, ans)
        \/ HttpFail(u)

NextScenario1 ==
    \/ Scenario1Gather
    \/ Scenario1Finish
    \/ Scenario1Unit

SpecScenario1 == Scenario1Init /\ [][NextScenario1]_vars

TenantRequestOwnSlug(u) ==
    [name |-> <<"Race Tenant", u>>, slug |-> <<"race-test-slug", u>>,
     bearer |-> token]

\* The request tenant_race_test's create_tenant(token, suffix) sends: the
\* name carries the suffix, the slug is the same text for every call, the
\* Authorization header carries the token.
TenantRequest(u) ==
    [name |-> <<"Race Tenant", u>>, slug |-> "race-test-slug",
     bearer |-> token]

TenantAsyncInit ==
    /\ script = "race_test_tenant"
    /\ CommonInit
    /\ token \in {"tok", ""}
    /\ rows \in 0 .. MaxStale
    /\ atMostOnce \in BOOLEAN

\* check_tenant_count: the total of the search when it is answered 200,
\* and 0 for any other answer.
check_tenant_count(answer, total) == IF answer = "ok" THEN total ELSE 0

\* The slug every create_tenant request carries.
ContendedSlug == "race-test-slug"

\* main's test_slug, chosen from existing_count (kept as the result of the
\* probe made before the burst).
TestSlug ==
    IF uout[Probe].status > 0 THEN "race-test-slug-new" ELSE "race-test-slug"

\* main up to the first probe: gen-admin-token.sh (subprocess.run raises
\* when it cannot be started; an empty token ends main), then
\* existing_count = check_tenant_count(session, token, 'race-test-slug'),
\* whose session.get is outside any try.
TenantAsyncProbe ==
    /\ script = "race_test_tenant"
    /\ pc = "start"
    /\ \E r \in {"ok", "bad", "raise"} :
          IF r = "raise"
          THEN Crash /\ UNCHANGED <<upc, uout>>
          ELSE IF token = ""
          THEN /\ pc' = "exit"
               /\ UNCHANGED reportVars
               /\ UNCHANGED <<upc, uout>>
          ELSE /\ pc' = "probed"
               /\ upc' = [upc EXCEPT ![Probe] = "done"]
               /\ uout' = [uout EXCEPT
                             ![Probe] = Out("count", check_tenant_count(r, rows), FALSE)]
               /\ UNCHANGED reportVars
    /\ UNCHANGED <<script, nonceVars, peak, token, utmp, lock, counters, results>>
    /\ UNCHANGED targetVars

\* main: the choice of test_slug, the task list, asyncio.gather(*tasks).
TenantAsyncGather ==
    /\ script = "race_test_tenant"
    /\ pc = "probed"
    /\ pc' = "gather"
    /\ GatherAll
    /\ peak' = PeakAfter(upc')
    /\ rowsAtDispatch' = rows
    /\ UNCHANGED <<script, nonceVars, token, rows, atMostOnce>>
    /\ UNCHANGED <<uout, utmp, lock, counters, results>>
    /\ UNCHANGED reportVars

\* The dict create_tenant returns: the status, with success = (status is
\* 201), when the body was read as JSON; status 0 when session.post or
\* resp.json() raised.
TenantAsyncResult(u) ==
    IF uout[u].kind = "response"
    THEN [by |-> u, request_id |-> u + 1, status |-> uout[u].status,
          marker |-> uout[u].marker, success |-> uout[u].status = 201]
    ELSE [by |-> u, request_id |-> u + 1, status |-> 0,
          marker |-> FALSE, success |-> FALSE]

\* main after gather: success_count, conflict_count, other_failure.
TenantAsyncFinish ==
    /\ script = "race_test_tenant"
    /\ pc = "gather"
    /\ AllReturned
    /\ pc' = "verify"
    /\ LET res == [k \in 1 .. NumRequests |-> TenantAsyncResult(k - 1)]
           success_count == Cardinality({k \in 1 .. NumRequests : res[k].success})
           conflict_count == Cardinality({k \in 1 .. NumRequests : res[k].status = 409})
       IN /\ results' = res
          /\ counters' = [ZeroCounters EXCEPT
                            !["success"] = success_count,
                            !["conflict"] = conflict_count,
                            !["other"] = NumRequests - success_count - conflict_count]
    /\ UNCHANGED <<script, nonceVars, peak, token, upc, uout, utmp, lock>>
    /\ UNCHANGED reportVars
    /\ UNCHANGED targetVars

\* main's closing assessment.
TenantAsyncEvaluate(success_count, conflict_count, final_count) ==
    IF success_count > 1
    THEN [judgment |-> "Fail", reason |-> "race condition detected"]
    ELSE IF success_count = 1 /\ final_count = 1
    THEN [judgment |-> "Pass", reason |-> "safe: one tenant created"]
    ELSE IF success_count = 0 /\ conflict_count > 0
    THEN [judgment |-> "Inconclusive", reason |-> "all requests answered 409"]
    ELSE [judgment |-> "Inconclusive", reason |-> "anomaly"]

\* main: final_count = check_tenant_count(session, token, test_slug) and
\* the assessment.  The search for the other slug finds what the target
\* holds under it, whatever the burst did.  main returns None: the exit
\* status is 0.
TenantAsyncVerify ==
    /\ script = "race_test_tenant"
    /\ pc = "verify"
    /\ \E r \in {"ok", "bad", "raise"} : \E other \in 0 .. MaxStale :
          IF r = "raise"
          THEN Crash
          ELSE LET final_count ==
                       check_tenant_count(r, IF TestSlug = ContendedSlug
                                             THEN rows ELSE other)
                   ev == TenantAsyncEvaluate(counters["success"],
                                             counters["conflict"], final_count)
               IN /\ pc' = "exit"
                  /\ truth' = <<final_count>>
                  /\ judgment' = ev.judgment
                  /\ reason' = ev.reason
                  /\ exitcode' = 0
    /\ UNCHANGED <<script, nonceVars, peak, token>>
    /\ UNCHANGED unitVars
    /\ UNCHANGED targetVars

TenantAsyncUnit ==
    \E u \in UnitIds :
        \/ \E ans \in TargetAnswers : HttpAnswer(u, ans)
        \/ \E ans \in TargetAnswers : HttpGarbled(u, ans)
        \/ \E ans \in TargetAnswers : HttpLost(u, ans)
        \/ HttpFail(u)

NextTenantAsync ==
    \/ TenantAsyncProbe
    \/ TenantAsyncGather
    \/ TenantAsyncFinish
    \/ TenantAsyncVerify
    \/ TenantAsyncUnit

SpecTenantAsync == TenantAsyncInit /\ [][NextTenantAsync]_vars

\* C23: the probe of race_test_tenant leaves the target unchanged and is
\* idempotent: when it probes the contended slug before and after a burst
\* of which no request reached the target, the target holds what it held
\* and the two probes return the same count.
C23_ProbeIdempotent ==
    (/\ pc = "exit"
     /\ truth # << >>
     /\ TestSlug = ContendedSlug
     /\ \A u \in UnitIds : uout[u].kind = "connerr") =>
        /\ rows = rowsAtDispatch
        /\ truth[1] = uout[Probe].status

\* C25: in full_race_test against a target that enforces at-most-once
\* redemption, the token of the burst is unredeemed when the burst starts,
\* and a burst whose requests were all answered by the redemption logic
\* (200, 400 or 404) is reported as PASS with exit status 0.
C25_TokenFreshAtBurst ==
    (script = "full_race_test" /\ atMostOnce) =>
        /\ (\E u \in UnitIds : upc[u] # "new") => rowsAtDispatch = 0
        /\ (/\ pc = "exit"
            /\ Len(results) = NumRequests
            /\ \A k \in 1 .. NumRequests : results[k].status \in {200, 400, 404}) =>
               (judgment = "Pass" /\ exitcode = 0)

\* C26: the exchange_token calls of race_test_grpc are sent simultaneously:
\* in a run whose calls have all returned, more than one call was in
\* flight at some moment.
C26_CallsOverlap ==
    (script = "race_test_grpc" /\ \A u \in UnitIds : upc[u] \notin {"new", "call"}) =>
        peak >= 2

\* C27: when grpc_race_test's run_test ends, the Total it prints (the sum
\* of success_count, error_count, timeout_count and exception_count)
\* equals num_requests and responses holds num_requests entries.
C27_TotalIsNumRequests ==
    (script = "grpc_race_test" /\ pc = "report") =>
        /\ counters["success"] + counters["error"] + counters["timeout"]
             + counters["exception"] = NumRequests
        /\ Len(results) = NumRequests

\* C28: in race_test_tenant every answer that was received is recorded with
\* the status the target gave, whatever happened while its body was read,
\* and the success count reported after the burst is the number of
\* requests the target answered with 201.
C28_SuccessCountIs201 ==
    (script = "race_test_tenant" /\ pc \in {"verify", "exit"}
       /\ Len(results) = NumRequests) =>
        /\ \A k \in 1 .. NumRequests :
              uout[k - 1].kind \in {"response", "garbled"} =>
                  results[k].status = uout[k - 1].status
        /\ counters["success"] =
              Cardinality({u \in UnitIds :
                             /\ uout[u].kind \in {"response", "garbled"}
                             /\ uout[u].status = 201})

\* C29: in race_test_tenant the slug whose count is probed after the burst
\* is the slug the create_tenant requests of the burst carried, also when
\* a tenant was found before the burst.
C29_ProbedKeyIsContendedKey ==
    (script = "race_test_tenant" /\ pc = "exit" /\ truth # << >>) =>
        TestSlug = ContendedSlug

\* C30: precise_race_test ends with "TEST PASSED: No race condition
\* detected" and exit status 0 only when no request was classified as a
\* database constraint violation (500 with marker 1062).
C30_PassMeansNoDbError ==
    (script = "precise_race_test" /\ pc = "exit"
       /\ judgment = "Pass" /\ exitcode = 0) =>
        counters["db_error"] = 0

\* run_test's closing account: total_expected, and what is printed from it.
total_expected ==
    counters["success"] + counters["conflict"] + counters["db_error"]

PrintsAllAccounted == total_expected = NumRequests

PrintsMissing == NumRequests - total_expected

\* C31: when precise_race_test's run_test draws its account, it prints
\* "All requests accounted for" exactly when every request was counted in
\* one of the harness's counters, and otherwise the k of "Missing k
\* responses" is the number of requests counted in none.
C31_AccountedIffCounted ==
    (script = "precise_race_test" /\ pc = "report") =>
        /\ PrintsAllAccounted <=> (SumCounters(PreciseCounters) = NumRequests)
        /\ ~PrintsAllAccounted =>
              PrintsMissing = NumRequests - SumCounters(PreciseCounters)

\* The judgments of the four branches of main's assessment, in the order
\* they are written.
TenantAsyncRuleJudgment == <<"Fail", "Pass", "Inconclusive", "Inconclusive">>

\* A reading of the branch conditions in which the first one also takes a
\* single success.
TenantAsyncRuleMatchesOverlap(success_count, conflict_count, final_count) ==
    (IF success_count >= 1 THEN {1} ELSE {})
    \cup (IF success_count = 1 /\ final_count = 1 THEN {2} ELSE {})
    \cup (IF success_count = 0 /\ conflict_count > 0 THEN {3} ELSE {})
    \cup (IF /\ ~(success_count >= 1)
             /\ ~(success_count = 1 /\ final_count = 1)
             /\ ~(success_count = 0 /\ conflict_count > 0) THEN {4} ELSE {})

\* The branches of main's assessment whose own condition holds for the
\* counts, each condition taken by itself; the else branch is the one
\* taken when no written condition holds.
TenantAsyncRuleMatches(success_count, conflict_count, final_count) ==
    (IF success_count > 1 THEN {1} ELSE {})
    \cup (IF success_count = 1 /\ final_count = 1 THEN {2} ELSE {})
    \cup (IF success_count = 0 /\ conflict_count > 0 THEN {3} ELSE {})
    \cup (IF /\ ~(success_count > 1)
             /\ ~(success_count = 1 /\ final_count = 1)
             /\ ~(success_count = 0 /\ conflict_count > 0) THEN {4} ELSE {})

C33_ZeroMeansNoTenant ==
    script = "race_test_tenant" =>
        /\ (pc = "probed" /\ uout[Probe].status = 0) => rows = 0
        /\ (pc = "exit" /\ truth = <<0>> /\ TestSlug = ContendedSlug) => rows = 0

\* The number main prints as "Request i" for the k-th entry of results:
\* the index enumerate(results) gives it.
PrintedRequestNumber(k) == k - 1

\* C34: in race_test_simple the number printed as "Request i" next to a
\* result is the dispatch index of the reset_password(i) call that
\* produced the result.
C34_PrintedIndexIsDispatchIndex ==
    (script = "race_test_simple" /\ pc = "exit") =>
        \A k \in 1 .. Len(results) : PrintedRequestNumber(k) = results[k].by

\* The count of test_concurrent_reset a result goes into: success_count
\* (200), error_count (400 or 404), other_count (the rest).
FullClassify(r) ==
    IF r.status = 200 THEN "success"
    ELSE IF r.status \in {400, 404} THEN "error"
    ELSE "other"

\* C35: in full_race_test an invocation that exceeded its timeout is
\* classified apart: no invocation that ended otherwise (an answer of any
\* status, or another exception) is put in the class of one that timed
\* out.
C35_TimeoutClassifiedApart ==
    (script = "full_race_test" /\ pc = "exit" /\ Len(results) = NumRequests) =>
        \A j, k \in 1 .. NumRequests :
            (/\ uout[results[j].by].kind = "timeout"
             /\ uout[results[k].by].kind # "timeout") =>
                FullClassify(results[j]) # FullClassify(results[k])

(***************************************************************************)
(* test_nonce_reuse.py                                                     *)
(***************************************************************************)

\* The longest list of ciphertexts considered (the script lists five).
NumCiphertexts == 5

DecodeError == -1

\* The texts standing before the ':' of a ciphertext.
NonceTexts == {"QQ==", "QR==", "Qg==", "QQ"}

\* base64.b64decode on a nonce text: the bytes (here one byte, as a
\* number), or binascii.Error.  "QQ==" and "QR==" differ only in bits the
\* decoder drops and give the same byte; "QQ" lacks its padding.
b64decode(t) ==
    CASE t = "QQ==" -> 65
      [] t = "QR==" -> 65
      [] t = "Qg==" -> 66
      [] OTHER      -> DecodeError

\* A listed ciphertext: the text before its first ':' and the number of
\* parts ct.split(':') gives (1 when it holds no ':').
Ciphertexts ==
    {[nonce_b64 |-> t, parts |-> 2] : t \in NonceTexts}
    \cup {[nonce_b64 |-> "QQ==", parts |-> 1]}

\* The try block gets through: the split unpacks into two names and the
\* nonce text decodes.
Parses(ct) == ct.parts = 2 /\ b64decode(ct.nonce_b64) # DecodeError

NonceInit ==
    /\ script = "test_nonce_reuse"
    /\ ciphertexts \in UNION {[1 .. n -> Ciphertexts] : n \in 0 .. NumCiphertexts}
    /\ scanned = 0
    /\ nonces = {}
    /\ duplicates = << >>
    /\ pc = "start"
    /\ upc = [u \in AllUnits |-> "new"]
    /\ uout = [u \in AllUnits |-> NoOut]
    /\ utmp = [u \in AllUnits |-> 0]
    /\ lock = {}
    /\ counters = ZeroCounters
    /\ results = << >>
    /\ judgment = None
    /\ reason = None
    /\ exitcode = 0
    /\ truth = << >>
    /\ token = ""
    /\ rows = 0
    /\ atMostOnce = TRUE
    /\ rowsAtDispatch = 0
    /\ peak = 0

\* One turn of "for i, ct in enumerate(ciphertexts)": an entry that does
\* not parse is printed as an error and passed over; a nonce already in
\* nonces is appended to duplicates with its position, a new one is added
\* to nonces.
NonceScan ==
    /\ script = "test_nonce_reuse"
    /\ pc = "start"
    /\ scanned < Len(ciphertexts)
    /\ LET ct == ciphertexts[scanned + 1]
           nonce_hex == b64decode(ct.nonce_b64)
       IN IF ~Parses(ct)
          THEN UNCHANGED <<nonces, duplicates>>
          ELSE IF nonce_hex \in nonces
          THEN /\ duplicates' = Append(duplicates, <<scanned + 1, nonce_hex>>)
               /\ nonces' = nonces
          ELSE /\ nonces' = nonces \cup {nonce_hex}
               /\ duplicates' = duplicates
    /\ scanned' = scanned + 1
    /\ UNCHANGED <<script, pc, peak, token, ciphertexts>>
    /\ UNCHANGED unitVars
    /\ UNCHANGED reportVars
    /\ UNCHANGED targetVars

\* After the loop: sys.exit(1) when duplicates is not empty, sys.exit(0)
\* with "all nonces unique" otherwise.
NonceFinish ==
    /\ script = "test_nonce_reuse"
    /\ pc = "start"
    /\ scanned = Len(ciphertexts)
    /\ pc' = "exit"
    /\ IF duplicates # << >>
       THEN /\ judgment' = "Fail"
            /\ reason' = "CRITICAL: nonce reuse detected"
            /\ exitcode' = 1
       ELSE /\ judgment' = "Pass"
            /\ reason' = "all nonces unique"
            /\ exitcode' = 0
    /\ truth' = truth
    /\ UNCHANGED <<script, nonceVars, peak, token>>
    /\ UNCHANGED unitVars
    /\ UNCHANGED targetVars

NextNonce ==
    \/ NonceScan
    \/ NonceFinish

SpecNonce == NonceInit /\ [][NextNonce]_vars

====
